---- MODULE Spec2Model ----
(***************************************************************************)
(* LlamaChat (run.py): a session object holding a function registry and a *)
(* message history, with register_function / register_functions / chat.   *)
(*                                                                         *)
(* Python values are records [t, s, kids]:                                 *)
(*   t    - the Python type name ("str", "int", "bool", "NoneType",       *)
(*          "list", "dict")                                                *)
(*   s    - for a str its text as a sequence of chunks (concatenation is  *)
(*          \o); for int/bool/None the chunks of its repr                  *)
(*   kids - for a list its items, for a dict its items in insertion       *)
(*          order, as records [k, v] (k = "" for list items)              *)
(***************************************************************************)
EXTENDS Integers, Sequences, FiniteSets, TLC

VARIABLES functions, messages, pc, pre, sent, last

vars == <<functions, messages, pc, pre, sent, last>>

(***************************************************************************)
(* Bounds of the model.                                                    *)
(***************************************************************************)
MaxMsgs == 3
MaxBatch == 2

(***************************************************************************)
(* Python values.                                                          *)
(***************************************************************************)
PyStr(chunks) == [t |-> "str", s |-> chunks, kids |-> <<>>]
PyInt(repr) == [t |-> "int", s |-> <<repr>>, kids |-> <<>>]
PyBool(repr) == [t |-> "bool", s |-> <<repr>>, kids |-> <<>>]
PyNone == [t |-> "NoneType", s |-> <<"None">>, kids |-> <<>>]
PyList(items) == [t |-> "list", s |-> <<>>, kids |-> items]
PyDict(items) == [t |-> "dict", s |-> <<>>, kids |-> items]

IsStr(v) == v.t = "str"

Range(f) == {f[i] : i \in DOMAIN f}

(***************************************************************************)
(* Python dict semantics on a sequence of [k, v] items kept in insertion  *)
(* order: d[k] = v replaces the value in place when k is present and      *)
(* appends a new item otherwise.                                           *)
(***************************************************************************)
DictKeys(d) == {d[i].k : i \in DOMAIN d}

DictGet(d, key) == d[CHOOSE i \in DOMAIN d : d[i].k = key].v

DictSetMoveToEnd(d, key, val) ==
    SelectSeq(d, LAMBDA it : it.k # key) \o <<[k |-> key, v |-> val]>>

DictSetKeepOld(d, key, val) ==
    IF key \in DictKeys(d) THEN d ELSE Append(d, [k |-> key, v |-> val])

DictSet(d, key, val) ==
    IF key \in DictKeys(d)
    THEN [i \in DOMAIN d |-> IF d[i].k = key THEN [k |-> key, v |-> val] ELSE d[i]]
    ELSE Append(d, [k |-> key, v |-> val])

(***************************************************************************)
(* json.loads.  A text is lexed chunk by chunk; every chunk of a text of  *)
(* the model is one JSON lexeme or a piece of prose.                       *)
(***************************************************************************)
\* string literals of the model's texts: the lexeme and the chunks of its value
StrLits ==
    [k : {"\"function\""}, v : {<<"function">>}] \cup
    [k : {"\"arguments\""}, v : {<<"arguments">>}] \cup
    [k : {"\"get_weather\""}, v : {<<"get_weather">>}] \cup
    [k : {"\"get_time\""}, v : {<<"get_time">>}] \cup
    [k : {"\"city\""}, v : {<<"city">>}] \cup
    [k : {"\"Paris\""}, v : {<<"Paris">>}] \cup
    [k : {"\"foo\""}, v : {<<"foo">>}] \cup
    [k : {"\"bar\""}, v : {<<"bar">>}] \cup
    [k : {"\"call function with arguments\""},
     v : {<<"call ", "function", " with ", "arguments">>}]

IsStrLit(c) == \E e \in StrLits : e.k = c
StrLitValue(c) == (CHOOSE e \in StrLits : e.k = c).v

NumLits == {"42"}
BoolLits == {"true", "false"}

\* json scanner: the value a one-lexeme chunk denotes
IsAtom(c) == IsStrLit(c) \/ c \in NumLits \/ c \in BoolLits \/ c = "null"

AtomValue(c) ==
    IF IsStrLit(c) THEN PyStr(StrLitValue(c))
    ELSE IF c \in NumLits THEN PyInt(c)
    ELSE IF c = "true" THEN PyBool("True")
    ELSE IF c = "false" THEN PyBool("False")
    ELSE PyNone

ParseFail == [ok |-> FALSE, v |-> PyNone, i |-> 0]
ParseOk(val, next) == [ok |-> TRUE, v |-> val, i |-> next]

RECURSIVE ParseValue(_, _), ParseItems(_, _, _), ParseMembers(_, _, _)

\* one JSON value starting at chunk i
ParseValue(c, i) ==
    IF i > Len(c) THEN ParseFail
    ELSE IF IsAtom(c[i]) THEN ParseOk(AtomValue(c[i]), i + 1)
    ELSE IF c[i] = "[" THEN
        IF i + 1 <= Len(c) /\ c[i + 1] = "]" THEN ParseOk(PyList(<<>>), i + 2)
        ELSE ParseItems(c, i + 1, <<>>)
    ELSE IF c[i] = "{" THEN
        IF i + 1 <= Len(c) /\ c[i + 1] = "}" THEN ParseOk(PyDict(<<>>), i + 2)
        ELSE ParseMembers(c, i + 1, <<>>)
    ELSE ParseFail

\* the items of an array, the first of them at chunk i
ParseItems(c, i, acc) ==
    LET r == ParseValue(c, i) IN
    IF ~r.ok \/ r.i > Len(c) THEN ParseFail
    ELSE LET items == Append(acc, [k |-> "", v |-> r.v]) IN
         IF c[r.i] = "]" THEN ParseOk(PyList(items), r.i + 1)
         ELSE IF c[r.i] = "," THEN ParseItems(c, r.i + 1, items)
         ELSE ParseFail

\* the members of an object, the first of them at chunk i; a repeated key
\* keeps its place and takes the later value
ParseMembers(c, i, acc) ==
    IF i + 1 > Len(c) \/ ~IsStrLit(c[i]) \/ Len(StrLitValue(c[i])) # 1 \/ c[i + 1] # ":"
    THEN ParseFail
    ELSE LET r == ParseValue(c, i + 2) IN
         IF ~r.ok \/ r.i > Len(c) THEN ParseFail
         ELSE LET items == DictSet(acc, StrLitValue(c[i])[1], r.v) IN
              IF c[r.i] = "}" THEN ParseOk(PyDict(items), r.i + 1)
              ELSE IF c[r.i] = "," THEN ParseMembers(c, r.i + 1, items)
              ELSE ParseFail

\* json.loads(text): the whole text must be one JSON value
JsonLoads(text) ==
    LET r == ParseValue(text.s, 1) IN
    IF r.ok /\ r.i = Len(text.s) + 1
    THEN [ok |-> TRUE, v |-> r.v]
    ELSE [ok |-> FALSE, v |-> PyNone]

(***************************************************************************)
(* The callables a caller can hand to the session: id is the identity of  *)
(* the object, name its __name__, hasCode whether it has a __code__       *)
(* (a def or lambda has, a builtin such as len has not), varnames its     *)
(* co_varnames[:co_argcount], and raises/result what a call of it with    *)
(* matching keyword arguments does.                                        *)
(***************************************************************************)
GetWeather1 ==
    [id |-> "get_weather#1", name |-> "get_weather", hasCode |-> TRUE,
     varnames |-> <<"city">>, raises |-> FALSE, result |-> PyStr(<<"Sunny">>)]
GetWeather2 ==
    [id |-> "get_weather#2", name |-> "get_weather", hasCode |-> TRUE,
     varnames |-> <<"city">>, raises |-> FALSE, result |-> PyInt("21")]
GetTime ==
    [id |-> "get_time#1", name |-> "get_time", hasCode |-> TRUE,
     varnames |-> <<>>, raises |-> TRUE, result |-> PyNone]
BuiltinLen ==
    [id |-> "len", name |-> "len", hasCode |-> FALSE,
     varnames |-> <<>>, raises |-> FALSE, result |-> PyInt("0")]

Callables == {GetWeather1, GetWeather2, GetTime, BuiltinLen}

CallableOf(id) == CHOOSE c \in Callables : c.id = id

\* the {function, description} entries a caller registers
Entries ==
    {[function |-> GetWeather1, description |-> "Get the weather"],
     [function |-> GetWeather2, description |-> "Weather, in degrees"],
     [function |-> GetTime, description |-> "Get the time"],
     [function |-> BuiltinLen, description |-> "Length"]}

EntryLists == UNION {[1..n -> Entries] : n \in 0..MaxBatch}

(***************************************************************************)
(* Results of a call: a returned value or a raised exception.             *)
(***************************************************************************)
Return(val) == [raised |-> FALSE, exc |-> "", val |-> val]
Raise(exc) == [raised |-> TRUE, exc |-> exc, val |-> PyNone]

(***************************************************************************)
(* class Function                                                          *)
(***************************************************************************)
\* Function.__init__: func.__code__ raises AttributeError when absent
Function(name, func, description) ==
    IF func.hasCode
    THEN Return([name |-> name, func |-> func.id, description |-> description,
                 parameters |-> func.varnames])
    ELSE Raise("AttributeError")

(***************************************************************************)
(* String formatting used by the system message.                          *)
(***************************************************************************)
Digits == <<"0", "1", "2", "3", "4", "5", "6", "7", "8", "9">>

RECURSIVE IntToStr(_)
\* format of an int >= 0 in an f-string, one chunk per digit
IntToStr(n) ==
    IF n < 10 THEN <<Digits[n + 1]>>
    ELSE IntToStr(n \div 10) \o <<Digits[(n % 10) + 1]>>

RECURSIVE QuotedNames(_)
QuotedNames(names) ==
    IF Len(names) = 1 THEN <<"'", names[1], "'">>
    ELSE <<"'", names[1], "'", ", ">> \o QuotedNames(Tail(names))

\* format of a tuple of str in an f-string: (), ('a',), ('a', 'b')
TupleRepr(names) ==
    IF names = <<>> THEN <<"()">>
    ELSE IF Len(names) = 1 THEN <<"(">> \o QuotedNames(names) \o <<",)">>
    ELSE <<"(">> \o QuotedNames(names) \o <<")">>

Preamble == "You are a helpful assistant."
CatalogHeader == " You have access to the following functions:\n\n"
Instructions == "\nWhen you need to use a function, output a JSON object in the following format:\n\n{\n  \"function\": \"function_name\",\n  \"arguments\": {\n    \"arg1\": \"value1\",\n    \"arg2\": \"value2\"\n  }\n}\n"

\* one catalog line: f"{idx}. {name}{func.parameters}: {func.description}\n"
CatalogLine(idx, name, func) ==
    IntToStr(idx) \o <<". ", name>> \o TupleRepr(func.parameters)
        \o <<": ", func.description, "\n">>

RECURSIVE CatalogLines(_, _)
\* the lines of the items of fns from index idx on (enumerate(..., 1))
CatalogLines(fns, idx) ==
    IF idx > Len(fns) THEN <<>>
    ELSE CatalogLine(idx, fns[idx].k, fns[idx].v) \o CatalogLines(fns, idx + 1)

SystemContent(fns) ==
    IF fns # <<>>
    THEN <<Preamble, CatalogHeader>> \o CatalogLines(fns, 1) \o <<Instructions>>
    ELSE <<Preamble>>

Message(role, content) == [role |-> role, content |-> content]

(***************************************************************************)
(* class LlamaChat.  self is the record [functions, messages].            *)
(***************************************************************************)
_initialize_system_message_keep(self) ==
    [self EXCEPT !.messages =
        <<Message("system", PyStr(SystemContent(self.functions)))>>
            \o SubSeq(self.messages, 2, Len(self.messages))]

_initialize_system_message(self) ==
    [self EXCEPT !.messages =
        <<Message("system", PyStr(SystemContent(self.functions)))>>]

\* __init__: an empty registry, then the system message
NewSession == _initialize_system_message([functions |-> <<>>, messages |-> <<>>])

\* register_function: [raised, exc, self]
register_function(self, func, description) ==
    LET function == Function(func.name, func, description) IN
    IF function.raised
    THEN [raised |-> TRUE, exc |-> function.exc, self |-> self]
    ELSE [raised |-> FALSE, exc |-> "",
          self |-> _initialize_system_message(
                      [self EXCEPT !.functions =
                          DictSet(self.functions, func.name, function.val)])]

RECURSIVE register_functions(_, _)
\* register_functions: the entries in list order, up to the first that raises
register_functions(self, entries) ==
    IF entries = <<>> THEN [raised |-> FALSE, exc |-> "", self |-> self]
    ELSE LET r == register_function(self, entries[1].function, entries[1].description) IN
         IF r.raised THEN r
         ELSE register_functions(r.self, Tail(entries))

(***************************************************************************)
(* The remote endpoint: what one POST can come back with.                  *)
(*   transport - requests.post raises a RequestException                   *)
(*   status    - a non-2xx status: raise_for_status raises HTTPError       *)
(*   badbody   - a 2xx body without choices[0].message.content: KeyError   *)
(*   null      - a 2xx body whose content is null                          *)
(*   text      - a 2xx body whose content is the text                      *)
(***************************************************************************)
Chunks(cs) == PyStr(cs)

ReplyTexts ==
    {Chunks(<<"Hello!">>),
     Chunks(<<"{", "\"foo\"", ":", "\"bar\"", "}">>),
     Chunks(<<"{", "\"function\"", ":", "\"get_weather\"", "}">>),
     Chunks(<<"Sure: ", "{", "\"function\"", ":", "\"get_time\"", ",",
              "\"arguments\"", ":", "{", "}", "}">>),
     Chunks(<<"{", "\"function\"", ":", "\"get_weather\"", ",",
              "\"arguments\"", ":", "{", "\"city\"", ":", "\"Paris\"", "}", "}">>),
     Chunks(<<"{", "\"function\"", ":", "\"get_time\"", ",",
              "\"arguments\"", ":", "{", "}", "}">>),
     Chunks(<<"{", "\"function\"", ":", "\"get_weather\"", ",",
              "\"arguments\"", ":", "[", "\"Paris\"", "]", "}">>),
     Chunks(<<"{", "\"function\"", ":", "\"get_weather\"", ",",
              "\"arguments\"", ":", "{", "}", "}">>),
     Chunks(<<"{", "\"function\"", ":", "[", "\"get_time\"", "]", ",",
              "\"arguments\"", ":", "{", "}", "}">>),
     Chunks(<<"42">>),
     Chunks(<<"[", "\"function\"", ",", "\"arguments\"", "]">>),
     Chunks(<<"\"call function with arguments\"">>)}

ApiOutcomes ==
    [kind : {"transport", "status", "badbody", "null"}, text : {PyNone}]
        \cup [kind : {"text"}, text : ReplyTexts]

UserTexts == {Chunks(<<"What is the weather in Paris?">>)}

Apology == PyStr(<<"Sorry, I encountered an error. Please try again.">>)
NotRecognized == PyStr(<<"Error: Function not recognized.">>)

\* _call_api, from the response on: None on a RequestException, the content
\* of the first choice otherwise
_call_api(o) ==
    IF o.kind \in {"transport", "status"} THEN Return(PyNone)
    ELSE IF o.kind = "badbody" THEN Raise("KeyError")
    ELSE Return(o.text)

(***************************************************************************)
(* Python operators on values.                                             *)
(***************************************************************************)
\* key in container: keys of a dict, items of a list, substring of a str
\* (a chunk of it, in the model); TypeError for a container of another type
Contains(key, v) ==
    IF v.t = "dict" THEN Return(key \in DictKeys(v.kids))
    ELSE IF v.t = "list" THEN Return(\E i \in DOMAIN v.kids : v.kids[i].v = PyStr(<<key>>))
    ELSE IF v.t = "str" THEN Return(key \in Range(v.s))
    ELSE Raise("TypeError")

\* container[key] with a str key: the value of a dict, TypeError for a list
\* or a str (the callers below only subscript keys that are present)
GetItem(v, key) ==
    IF v.t = "dict" THEN Return(DictGet(v.kids, key))
    ELSE Raise("TypeError")

Hashable(v) == v.t \notin {"list", "dict"}

\* bool(v)
Truthy(v) ==
    IF v.t = "NoneType" THEN FALSE
    ELSE IF v.t \in {"list", "dict"} THEN v.kids # <<>>
    ELSE IF v.t = "str" THEN v.s # <<>>
    ELSE v.s \notin {<<"0">>, <<"False">>}

\* _parse_function_call: the parsed value, or None
_parse_function_call(response_text) ==
    LET parsed == JsonLoads(response_text) IN
    IF ~parsed.ok THEN Return(PyNone)
    ELSE LET hasFunction == Contains("function", parsed.v) IN
         IF hasFunction.raised THEN hasFunction
         ELSE IF ~hasFunction.val THEN Return(PyNone)
         ELSE LET hasArguments == Contains("arguments", parsed.v) IN
              IF hasArguments.raised THEN hasArguments
              ELSE IF hasArguments.val THEN Return(parsed.v)
              ELSE Return(PyNone)

WithCalls(r, calls) ==
    [raised |-> r.raised, exc |-> r.exc, val |-> r.val, calls |-> calls]

\* the call of func with the arguments as keyword arguments:
\* [raised, exc, val, calls]; calls lists the handlers
\* whose body ran, each with the keyword arguments it was given
CallHandler(func, arguments) ==
    IF arguments.t # "dict" THEN WithCalls(Raise("TypeError"), <<>>)
    ELSE IF DictKeys(arguments.kids) # Range(func.varnames)
    THEN WithCalls(Raise("TypeError"), <<>>)
    ELSE LET call == [func |-> func.id, kwargs |-> arguments] IN
         IF func.raises THEN WithCalls(Raise("HandlerError"), <<call>>)
         ELSE WithCalls(Return(func.result), <<call>>)

\* _execute_function: [raised, exc, val, calls]
_execute_function_nocheck(self, function_call) ==
    LET function_name == GetItem(function_call, "function") IN
    IF function_name.raised THEN WithCalls(function_name, <<>>)
    ELSE LET arguments == GetItem(function_call, "arguments") IN
         IF ~Hashable(function_name.val) THEN WithCalls(Raise("TypeError"), <<>>)
         ELSE IF /\ IsStr(function_name.val)
                 /\ Len(function_name.val.s) = 1
                 /\ function_name.val.s[1] \in DictKeys(self.functions)
         THEN CallHandler(CallableOf(DictGet(self.functions, function_name.val.s[1]).func),
                          arguments.val)
         ELSE WithCalls(Raise("KeyError"), <<>>)

_execute_function_catch(self, function_call) ==
    LET function_name == GetItem(function_call, "function") IN
    IF function_name.raised THEN WithCalls(function_name, <<>>)
    ELSE LET arguments == GetItem(function_call, "arguments") IN
         IF ~Hashable(function_name.val) THEN WithCalls(Raise("TypeError"), <<>>)
         ELSE IF /\ IsStr(function_name.val)
                 /\ Len(function_name.val.s) = 1
                 /\ function_name.val.s[1] \in DictKeys(self.functions)
         THEN LET r == CallHandler(
                         CallableOf(DictGet(self.functions, function_name.val.s[1]).func),
                         arguments.val) IN
              IF r.raised THEN WithCalls(Return(PyStr(<<"Error: ", r.exc>>)), r.calls)
              ELSE r
         ELSE WithCalls(Return(NotRecognized), <<>>)

_execute_function(self, function_call) ==
    LET function_name == GetItem(function_call, "function") IN
    IF function_name.raised THEN WithCalls(function_name, <<>>)
    ELSE LET arguments == GetItem(function_call, "arguments") IN
         IF ~Hashable(function_name.val) THEN WithCalls(Raise("TypeError"), <<>>)
         ELSE IF /\ IsStr(function_name.val)
                 /\ Len(function_name.val.s) = 1
                 /\ function_name.val.s[1] \in DictKeys(self.functions)
         THEN CallHandler(CallableOf(DictGet(self.functions, function_name.val.s[1]).func),
                          arguments.val)
         ELSE WithCalls(Return(NotRecognized), <<>>)

\* _call_api, lines 88-95: the messages of the request body are the list
\* it is given, as it is when requests.post serialises it
RequestLatestOnly(msgs) == <<msgs[1], msgs[Len(msgs)]>>

RequestMessages(msgs) == msgs

\* chat, line 139: the user message is appended
chat_append_repair(self, message) ==
    [self EXCEPT !.messages =
        IF self.messages[Len(self.messages)].role = "user"
        THEN [self.messages EXCEPT ![Len(self.messages)] = Message("user", message)]
        ELSE Append(self.messages, Message("user", message))]

chat_append(self, message) ==
    [self EXCEPT !.messages = Append(self.messages, Message("user", message))]

\* self.messages.pop()
PopNothing(msgs) == msgs

PopFirst(msgs) == Tail(msgs)

PopTwo(msgs) == SubSeq(msgs, 1, Len(msgs) - 2)

Pop(msgs) == SubSeq(msgs, 1, Len(msgs) - 1)

\* the outcome of chat: the session, the value returned or the exception
\* raised, the handler calls made, and whether _execute_function was entered
ChatResult(self, r, calls, dispatched) ==
    [self |-> self, raised |-> r.raised, exc |-> r.exc, val |-> r.val,
     calls |-> calls, dispatched |-> dispatched]

\* chat, lines 142-144: no response; pop on an empty list raises IndexError
chat_failed(self) ==
    IF self.messages = <<>>
    THEN ChatResult(self, Raise("IndexError"), <<>>, FALSE)
    ELSE ChatResult([self EXCEPT !.messages = Pop(self.messages)],
                    Return(Apology), <<>>, FALSE)

\* chat, lines 149-151: the reply is a function call
chat_function_call_raw(self, function_call, assistant_response) ==
    LET function_result == _execute_function(self, function_call) IN
    IF function_result.raised
    THEN ChatResult(self, function_result, function_result.calls, TRUE)
    ELSE ChatResult(
           [self EXCEPT !.messages =
               Append(self.messages, Message("assistant", assistant_response))],
           Return(function_result.val), function_result.calls, TRUE)

chat_function_call(self, function_call, assistant_response) ==
    LET function_result == _execute_function(self, function_call) IN
    IF function_result.raised
    THEN ChatResult(self, function_result, function_result.calls, TRUE)
    ELSE ChatResult(
           [self EXCEPT !.messages =
               Append(self.messages, Message("assistant", function_result.val))],
           Return(function_result.val), function_result.calls, TRUE)

\* chat, lines 153-154: the reply is text
chat_text_noappend(self, assistant_response) ==
    ChatResult(self, Return(assistant_response), <<>>, FALSE)

chat_text(self, assistant_response) ==
    ChatResult(
      [self EXCEPT !.messages =
          Append(self.messages, Message("assistant", assistant_response))],
      Return(assistant_response), <<>>, FALSE)

\* chat, lines 141-154, from the response of the POST on
chat_finish(self, o) ==
    LET assistant_response == _call_api(o) IN
    IF assistant_response.raised THEN ChatResult(self, assistant_response, <<>>, FALSE)
    ELSE IF assistant_response.val.t = "NoneType" THEN chat_failed(self)
    ELSE LET function_call == _parse_function_call(assistant_response.val) IN
         IF function_call.raised THEN ChatResult(self, function_call, <<>>, FALSE)
         ELSE IF Truthy(function_call.val)
         THEN chat_function_call(self, function_call.val, assistant_response.val)
         ELSE chat_text(self, assistant_response.val)

(***************************************************************************)
(* The session and its callers.  pc[t] is "idle" or, between the POST of  *)
(* a chat call and its response, "awaiting"; pre[t] is the history when   *)
(* the chat call of t began and sent[t] the messages of its request.      *)
(* last records the operation that ended last: its caller, its inputs,    *)
(* the registry and history it began with, and how it ended; and, since   *)
(* the history was last reset to the system message with no call in       *)
(* flight, whether a step was taken while another caller's chat call was  *)
(* in flight (overlap) and the first exception a chat call ended with     *)
(* (threw, "" when none did).                                              *)
(***************************************************************************)
Threads == {1, 2}

Self == [functions |-> functions, messages |-> messages]

NoOp ==
    [op |-> "init", t |-> 0, raised |-> FALSE, exc |-> "", val |-> PyNone,
     mpre |-> <<>>, sent |-> <<>>, fpre |-> <<>>, turns |-> FALSE, api |-> "",
     reply |-> PyNone, calls |-> <<>>, dispatched |-> FALSE, entries |-> <<>>,
     overlap |-> FALSE, threw |-> ""]

\* a chat call of another caller is in flight
Overlapping(t) == \E u \in Threads \ {t} : pc[u] = "awaiting"

\* the history is the system message alone and no other call is in flight
FreshHistory(t, msgs) ==
    /\ ~Overlapping(t)
    /\ Len(msgs) = 1
    /\ msgs[1].role = "system"

Init ==
    /\ functions = NewSession.functions
    /\ messages = NewSession.messages
    /\ pc = [t \in Threads |-> "idle"]
    /\ pre = [t \in Threads |-> <<>>]
    /\ sent = [t \in Threads |-> <<>>]
    /\ last = NoOp

\* chat up to the POST: the user message is appended and the history sent
ChatSend(t, message) ==
    /\ pc[t] = "idle"
    /\ Len(messages) < MaxMsgs
    /\ messages' = chat_append(Self, message).messages
    /\ pre' = [pre EXCEPT ![t] = messages]
    /\ sent' = [sent EXCEPT ![t] = RequestMessages(messages')]
    /\ pc' = [pc EXCEPT ![t] = "awaiting"]
    /\ last' = [NoOp EXCEPT !.op = "send", !.t = t,
                            !.overlap = last.overlap \/ Overlapping(t),
                            !.threw = last.threw]
    /\ UNCHANGED functions

\* chat from the response on
ChatReceive(t, o) ==
    /\ pc[t] = "awaiting"
    /\ LET r == chat_finish(Self, o) IN
       /\ messages' = r.self.messages
       /\ functions' = r.self.functions
       /\ last' = [NoOp EXCEPT !.op = "chat", !.t = t, !.raised = r.raised,
                               !.exc = r.exc, !.val = r.val, !.mpre = pre[t],
                               !.sent = sent[t], !.fpre = functions,
                               !.api = o.kind, !.reply = o.text,
                               !.calls = r.calls, !.dispatched = r.dispatched,
                               !.overlap = last.overlap \/ Overlapping(t),
                               !.threw = IF last.threw = "" /\ r.raised
                                         THEN r.exc ELSE last.threw]
    /\ pc' = [pc EXCEPT ![t] = "idle"]
    /\ pre' = [pre EXCEPT ![t] = <<>>]
    /\ sent' = [sent EXCEPT ![t] = <<>>]

RegisterFunction(t, e) ==
    /\ pc[t] = "idle"
    /\ LET r == register_function(Self, e.function, e.description) IN
       /\ messages' = r.self.messages
       /\ functions' = r.self.functions
       /\ last' = [NoOp EXCEPT !.op = "register_function", !.t = t,
                               !.raised = r.raised, !.exc = r.exc,
                               !.fpre = functions, !.turns = Len(messages) > 1,
                               !.entries = <<e>>,
                               !.overlap = IF FreshHistory(t, messages') THEN FALSE
                                           ELSE last.overlap \/ Overlapping(t),
                               !.threw = IF FreshHistory(t, messages') THEN ""
                                         ELSE last.threw]
    /\ UNCHANGED <<pc, pre, sent>>

RegisterFunctions(t, es) ==
    /\ pc[t] = "idle"
    /\ LET r == register_functions(Self, es) IN
       /\ messages' = r.self.messages
       /\ functions' = r.self.functions
       /\ last' = [NoOp EXCEPT !.op = "register_functions", !.t = t,
                               !.raised = r.raised, !.exc = r.exc,
                               !.fpre = functions, !.turns = Len(messages) > 1,
                               !.entries = es,
                               !.overlap = IF FreshHistory(t, messages') THEN FALSE
                                           ELSE last.overlap \/ Overlapping(t),
                               !.threw = IF FreshHistory(t, messages') THEN ""
                                         ELSE last.threw]
    /\ UNCHANGED <<pc, pre, sent>>

\* one caller at a time
Caller == CHOOSE t \in Threads : \A u \in Threads : t <= u

Next ==
    \/ \E message \in UserTexts : ChatSend(Caller, message)
    \/ \E o \in ApiOutcomes : ChatReceive(Caller, o)
    \/ \E e \in Entries : RegisterFunction(Caller, e)
    \/ \E es \in EntryLists : RegisterFunctions(Caller, es)

Spec == Init /\ [][Next]_vars

(***************************************************************************)
(* Two callers on one session, with no coordination between them: either  *)
(* may begin a chat call while a chat call of the other is waiting for    *)
(* its response.  Each caller sends its own text.  The session starts     *)
(* with get_weather and get_time registered, and the endpoint answers     *)
(* with one outcome of each kind that chat tells apart: a failed request, *)
(* a text reply, a call of a handler that returns and a call of a handler *)
(* that raises.                                                            *)
(***************************************************************************)
TextOf(t) ==
    IF t = Caller THEN Chunks(<<"What is the weather in Paris?">>)
    ELSE Chunks(<<"And in Rome?">>)

ConcOutcomes ==
    {o \in ApiOutcomes :
        \/ o.kind = "transport"
        \/ o.text \in
              {Chunks(<<"Hello!">>),
               Chunks(<<"{", "\"function\"", ":", "\"get_weather\"", ",",
                        "\"arguments\"", ":", "{", "\"city\"", ":",
                        "\"Paris\"", "}", "}">>),
               Chunks(<<"{", "\"function\"", ":", "\"get_time\"", ",",
                        "\"arguments\"", ":", "{", "}", "}">>)}}

InitConc ==
    LET s == register_functions(NewSession,
                 <<[function |-> GetWeather1, description |-> "Get the weather"],
                   [function |-> GetTime, description |-> "Get the time"]>>).self IN
    /\ functions = s.functions
    /\ messages = s.messages
    /\ pc = [t \in Threads |-> "idle"]
    /\ pre = [t \in Threads |-> <<>>]
    /\ sent = [t \in Threads |-> <<>>]
    /\ last = NoOp

NextConc ==
    \E t \in Threads :
        \/ ChatSend(t, TextOf(t))
        \/ \E o \in ConcOutcomes : ChatReceive(t, o)

SpecConc == InitConc /\ [][NextConc]_vars

(***************************************************************************)
(* Vocabulary of the properties.                                           *)
(***************************************************************************)
Registered == last.op \in {"register_function", "register_functions"}
ChatEnded == last.op = "chat"
GotText == ChatEnded /\ last.api = "text"
RequestFailed == ChatEnded /\ last.api \in {"transport", "status"}

UserMessage == Message("user", CHOOSE m \in UserTexts : TRUE)
SystemMessageOf(fns) == Message("system", PyStr(SystemContent(fns)))

\* the reply of the last chat call read as JSON
ReplyJson == JsonLoads(last.reply)
ReplyIsCallObject ==
    /\ GotText
    /\ ReplyJson.ok
    /\ ReplyJson.v.t = "dict"
    /\ {"function", "arguments"} \subseteq DictKeys(ReplyJson.v.kids)
ReplyFunction == DictGet(ReplyJson.v.kids, "function")
ReplyArguments == DictGet(ReplyJson.v.kids, "arguments")
ReplyNamesAFunction ==
    ReplyIsCallObject /\ IsStr(ReplyFunction) /\ Len(ReplyFunction.s) = 1
ReplyNamesRegistered ==
    ReplyNamesAFunction /\ ReplyFunction.s[1] \in DictKeys(last.fpre)
ReplyHandler == CallableOf(DictGet(last.fpre, ReplyFunction.s[1]).func)
ReplyBinds ==
    /\ ReplyArguments.t = "dict"
    /\ DictKeys(ReplyArguments.kids) = Range(ReplyHandler.varnames)

\* the catalog entries read back from the text of a system message: one per
\* ". " separator, with the number before it and the name after it
CatalogEntries(chunks) ==
    LET at == SelectSeq([i \in 1..Len(chunks) |-> i], LAMBDA i : chunks[i] = ". ") IN
    [j \in 1..Len(at) |-> [index |-> chunks[at[j] - 1], name |-> chunks[at[j] + 1]]]

KeysOf(d) == [i \in 1..Len(d) |-> d[i].k]
IsPrefix(a, b) == Len(a) <= Len(b) /\ SubSeq(b, 1, Len(a)) = a

(***************************************************************************)
(* C1: a chat call whose request fails (transport error or non-2xx        *)
(* status) returns the apology string without raising and leaves the      *)
(* history equal to the history before the call; the element removed is   *)
(* the user message that was appended for the request.                     *)
(***************************************************************************)
C1_FailedRequestRestoresHistory ==
    RequestFailed =>
        /\ ~last.raised
        /\ last.val = Apology
        /\ messages = last.mpre
        /\ last.sent = Append(messages, UserMessage)

C1_Witness ==
    /\ RequestFailed
    /\ last.api = "status"
    /\ Len(last.mpre) > 1
    /\ messages = last.mpre
    /\ last.val = Apology

C3_CatalogMatchesRegistry ==
    LET text == messages[1].content.s
        catalog == CatalogEntries(text)
    IN  /\ messages[1].role = "system"
        /\ Len(catalog) = Cardinality(DictKeys(functions))
        /\ \A j \in DOMAIN catalog :
              /\ <<catalog[j].index>> = IntToStr(j)
              /\ catalog[j].name = functions[j].k
        /\ functions = <<>> => text = <<Preamble>>
        /\ functions # <<>> =>
              /\ text[2] = CatalogHeader
              /\ text[Len(text)] = Instructions
        /\ Registered => IsPrefix(KeysOf(last.fpre), KeysOf(functions))

C3_Witness ==
    /\ last.op = "register_function"
    /\ ~last.raised
    /\ Len(last.fpre) = 2
    /\ last.entries[1].function.name = last.fpre[1].k
    /\ Len(CatalogEntries(messages[1].content.s)) = 2

(***************************************************************************)
(* C4: registering under a name that is already registered replaces the   *)
(* entry: the registry and the catalog keep their number of entries, the  *)
(* entry of that name carries the new handler and description, and a      *)
(* function call naming a registered function runs the handler now        *)
(* registered under that name.                                             *)
(***************************************************************************)
C4_ReRegistrationReplaces ==
    /\ (/\ last.op = "register_function"
        /\ ~last.raised
        /\ last.entries[1].function.name \in DictKeys(last.fpre)) =>
           LET e == last.entries[1]
               now == DictGet(functions, e.function.name)
           IN  /\ Len(functions) = Len(last.fpre)
               /\ KeysOf(functions) = KeysOf(last.fpre)
               /\ now.func = e.function.id
               /\ now.description = e.description
               /\ now.parameters = e.function.varnames
               /\ Len(CatalogEntries(messages[1].content.s)) = Len(last.fpre)
               /\ e.description \in Range(messages[1].content.s)
    /\ ChatEnded =>
           /\ functions = last.fpre
           /\ \A i \in DOMAIN last.calls :
                 /\ ReplyNamesRegistered
                 /\ last.calls[i].func = DictGet(functions, ReplyFunction.s[1]).func

C4_Witness ==
    /\ last.op = "register_function"
    /\ ~last.raised
    /\ last.entries[1].function.name \in DictKeys(last.fpre)
    /\ DictGet(last.fpre, last.entries[1].function.name).func
          # last.entries[1].function.id
    /\ DictGet(functions, last.entries[1].function.name).func
          = last.entries[1].function.id

(***************************************************************************)
(* C5 as stated: when the reply is a JSON object with both keys and the   *)
(* named function is registered, the handler registered under that name   *)
(* is invoked exactly once with the given arguments, one assistant        *)
(* message holding its return value follows the user message, and that    *)
(* value is returned.                                                      *)
(***************************************************************************)
C5_DispatchCompletes ==
    ReplyNamesRegistered =>
        /\ ~last.raised
        /\ last.calls = <<[func |-> ReplyHandler.id, kwargs |-> ReplyArguments]>>
        /\ last.val = ReplyHandler.result
        /\ messages = Append(last.sent, Message("assistant", last.val))

(***************************************************************************)
(* C5: when the reply is a JSON object with both keys and the named       *)
(* function is registered, the handler registered under that name is the  *)
(* only one called; if the call of the handler with the arguments as       *)
(* keyword arguments returns, it ran                                      *)
(* exactly once with the given arguments, one assistant message holding   *)
(* its return value follows the user message and that value is returned;  *)
(* if the call raises (the arguments do not bind to the parameters, or    *)
(* the handler fails), the exception reaches the caller and no assistant  *)
(* message is appended.                                                    *)
(***************************************************************************)
C5_DispatchToRegisteredHandler ==
    ReplyNamesRegistered =>
        /\ last.dispatched
        /\ IF ReplyBinds /\ ~ReplyHandler.raises
           THEN /\ ~last.raised
                /\ last.calls = <<[func |-> ReplyHandler.id, kwargs |-> ReplyArguments]>>
                /\ last.val = ReplyHandler.result
                /\ messages = Append(last.sent, Message("assistant", last.val))
           ELSE /\ last.raised
                /\ last.calls = IF ReplyBinds
                                THEN <<[func |-> ReplyHandler.id, kwargs |-> ReplyArguments]>>
                                ELSE <<>>
                /\ messages = last.sent

C5_Witness ==
    /\ ReplyNamesRegistered
    /\ ReplyBinds
    /\ Len(ReplyArguments.kids) = 1
    /\ ~last.raised
    /\ Len(last.calls) = 1
    /\ messages[Len(messages)] = Message("assistant", PyStr(<<"Sunny">>))

C7_OtherRepliesAreText ==
    (GotText /\ ~ReplyIsCallObject) =>
        /\ ~last.raised
        /\ last.calls = <<>>
        /\ last.val = last.reply
        /\ messages = Append(last.sent, Message("assistant", last.reply))

(***************************************************************************)
(* C8 as stated: a successful reply enters the dispatch path if and only  *)
(* if the whole reply text is valid JSON and the parsed value is an       *)
(* object with both a function and an arguments key.                       *)
(***************************************************************************)
C8_DispatchIffCallObject ==
    GotText => (last.dispatched <=> ReplyIsCallObject)

(***************************************************************************)
(* C9: when a handler invoked by chat fails, the failure reaches the      *)
(* caller and the history is the history before the call followed by the  *)
(* user message of the call, with no assistant reply.                      *)
(***************************************************************************)
C9_HandlerFailurePropagates ==
    (/\ ChatEnded
     /\ last.calls # <<>>
     /\ CallableOf(last.calls[1].func).raises) =>
        /\ last.raised
        /\ last.exc = "HandlerError"
        /\ messages = Append(last.mpre, UserMessage)
        /\ messages = last.sent

C9_Witness ==
    /\ ChatEnded
    /\ last.calls # <<>>
    /\ CallableOf(last.calls[1].func).raises
    /\ last.raised
    /\ messages[Len(messages)].role = "user"
    /\ Len(messages) = Len(last.mpre) + 1

(***************************************************************************)
(* C10 as stated: the content appended after a dispatch is the            *)
(* stringified return value, so every message of the history has a str    *)
(* content and every value chat returns is a str.                          *)
(***************************************************************************)
C10_ContentsAreStrings ==
    /\ \A i \in DOMAIN messages : IsStr(messages[i].content)
    /\ (ChatEnded /\ ~last.raised) => IsStr(last.val)

(***************************************************************************)
(* C11: every chat call that returns after the endpoint replied with a    *)
(* text returns the content of the last message of the history as it is   *)
(* when the call returns, and that message has role assistant.            *)
(***************************************************************************)
LastMessage == messages[Len(messages)]

C11_ReturnsLastAssistantContent ==
    (GotText /\ ~last.raised) =>
        /\ messages # <<>>
        /\ LastMessage.role = "assistant"
        /\ LastMessage.content = last.val

\* both branches: a text reply, and a dispatch that stored a handler's result
C11_Witness ==
    /\ GotText
    /\ ~last.raised
    /\ last.dispatched
    /\ last.calls # <<>>
    /\ LastMessage.content = last.val
    /\ last.val # last.reply

(***************************************************************************)
(* C12: with one caller at a time the history is never empty and its      *)
(* first element is the system message generated from the registry as it  *)
(* is now; no chat call, whether it succeeds, fails or dispatches, changes*)
(* that element: it is the same while the request is out and after the    *)
(* call has ended as it was before the call.                              *)
(***************************************************************************)
C12_SystemMessageFirst ==
    /\ messages # <<>>
    /\ messages[1] = SystemMessageOf(functions)
    /\ \A t \in Threads :
          pc[t] = "awaiting" => (pre[t] # <<>> /\ messages[1] = pre[t][1])
    /\ ChatEnded =>
          /\ last.mpre # <<>>
          /\ messages[1] = last.mpre[1]
          /\ functions = last.fpre

\* a failed request rolled the history back to a system message that lists
\* a registered function
C12_Witness ==
    /\ RequestFailed
    /\ functions # <<>>
    /\ messages = <<SystemMessageOf(functions)>>
    /\ last.mpre = messages

(***************************************************************************)
(* C13: every chat call issues one remote request, the user message being *)
(* appended before it is sent, and then reaches exactly one of the        *)
(* outcomes PlainReply, FunctionDispatch and Failed before the session is *)
(* idle again; a failed request is not issued again.                      *)
(***************************************************************************)
\* the outcomes of a chat call, by what the call did
ReachedFailed ==
    ChatEnded /\ ~last.dispatched /\ ~last.raised
        /\ last.val = Apology /\ messages = last.mpre
ReachedPlainReply ==
    ChatEnded /\ ~last.dispatched /\ ~last.raised
        /\ last.val = last.reply
        /\ messages = Append(last.sent, Message("assistant", last.reply))
ReachedFunctionDispatch == ChatEnded /\ last.dispatched

OutcomesReached ==
    {o \in {"Failed", "PlainReply", "FunctionDispatch"} :
        \/ o = "Failed" /\ ReachedFailed
        \/ o = "PlainReply" /\ ReachedPlainReply
        \/ o = "FunctionDispatch" /\ ReachedFunctionDispatch}

C13_OneRequestOneOutcome ==
    /\ \A t \in Threads :
          pc[t] = "awaiting" =>
              /\ messages = Append(pre[t], UserMessage)
              /\ sent[t] = messages
    /\ ChatEnded =>
          /\ pc[last.t] = "idle"
          /\ Cardinality(OutcomesReached) = 1

(***************************************************************************)
(* C14: the messages sent in the request of a chat call are the whole     *)
(* history as it is at that moment: the history as it was before the call *)
(* followed by the new user message, which comes last, with the current   *)
(* system message first and no earlier message left out or moved.         *)
(***************************************************************************)
C14_RequestCarriesFullHistory ==
    /\ \A t \in Threads :
          pc[t] = "awaiting" =>
              /\ sent[t] = Append(pre[t], UserMessage)
              /\ sent[t][1] = SystemMessageOf(functions)
    /\ ChatEnded =>
          /\ last.sent = Append(last.mpre, UserMessage)
          /\ last.sent[1] = SystemMessageOf(last.fpre)

\* a request that carries an earlier message between the system message and
\* the new user message
C14_Witness ==
    /\ pc[Caller] = "awaiting"
    /\ Len(pre[Caller]) >= 2
    /\ functions # <<>>
    /\ sent[Caller] = pre[Caller] \o <<UserMessage>>

(***************************************************************************)
(* C15: with two callers and no coordination, chat calls that overlap     *)
(* corrupt the history: two user messages end up adjacent, an assistant   *)
(* reply is stored after the other call's user message, and the rollback  *)
(* of a failing call removes the last element even when that is not its   *)
(* own user message.                                                      *)
(***************************************************************************)
\* a chat call is in flight
Busy == \E t \in Threads : pc[t] = "awaiting"

AdjacentUsers(msgs) ==
    \E i \in 1..(Len(msgs) - 1) :
        msgs[i].role = "user" /\ msgs[i + 1].role = "user"

\* the system message, then user and assistant messages in turn, the last of
\* them a user message exactly when a call is in flight
Ordered(msgs, busy) ==
    /\ msgs # <<>>
    /\ msgs[1].role = "system"
    /\ \A i \in 2..Len(msgs) :
          msgs[i].role = IF i % 2 = 0 THEN "user" ELSE "assistant"
    /\ (Len(msgs) % 2 = 0) <=> busy

\* the call that ended last stored its reply right after a user message of
\* the other caller
ReplyAfterOthersMessage ==
    /\ ChatEnded
    /\ Len(messages) = Len(last.sent) + 2
    /\ LastMessage.role = "assistant"
    /\ \E u \in Threads \ {last.t} :
          messages[Len(messages) - 1] = Message("user", TextOf(u))

\* the call that ended last failed and rolled back, and its own user message
\* is still where it appended it
RollbackRemovedAnother ==
    /\ RequestFailed
    /\ ~last.raised
    /\ Len(messages) >= Len(last.sent)
    /\ messages[Len(last.sent)] = Message("user", TextOf(last.t))
    /\ messages # last.mpre

(* C15 as stated: as long as no step was taken while another caller's     *)
(* call was in flight, none of these states is reachable.                 *)
C15_OnlyOverlapCorrupts ==
    ~last.overlap =>
        /\ ~AdjacentUsers(messages)
        /\ ~ReplyAfterOthersMessage
        /\ RequestFailed => messages = last.mpre

(* C15, amended: as long as no step was taken while another caller's call *)
(* was in flight, a failed request rolls back exactly the user message of *)
(* its own call; and as long as, besides, no chat call has ended with an  *)
(* exception, the history is the system message followed by user and      *)
(* assistant messages in turn.  With overlapping calls both fail: the     *)
(* witness is a history with two adjacent user messages from which a      *)
(* failing call has removed another call's assistant reply.               *)
C15_OverlapOrExceptionCorrupts ==
    /\ ~last.overlap =>
          /\ ~ReplyAfterOthersMessage
          /\ RequestFailed => messages = last.mpre
    /\ (~last.overlap /\ last.threw = "") => Ordered(messages, Busy)

C15_Witness ==
    /\ last.overlap
    /\ RollbackRemovedAnother
    /\ AdjacentUsers(messages)
    /\ ~Busy

(***************************************************************************)
(* C16: register_functions with a list leaves the session in the state    *)
(* that calling register_function on each entry in list order leaves it   *)
(* in, and never stops partway with only a prefix of the entries          *)
(* registered, register_function having no error outcome.                 *)
(***************************************************************************)
RECURSIVE EachRegistered(_, _)
\* the session after register_function was called on every entry in turn
EachRegistered(self, entries) ==
    IF entries = <<>> THEN self
    ELSE EachRegistered(
             register_function(self, entries[1].function,
                               entries[1].description).self,
             Tail(entries))

\* the registry and history a session with registry fns and any history has
\* after the entries are registered one by one (of the history only the fact
\* that it is reset is used when an entry is registered)
OneByOne(fns, entries) ==
    EachRegistered([functions |-> fns, messages |-> messages], entries)

C16_BatchIsSequenceOfSingles ==
    (last.op = "register_functions" /\ last.entries # <<>>) =>
        /\ ~last.raised
        /\ \A i \in DOMAIN last.entries :
              last.entries[i].function.name \in DictKeys(functions)
        /\ Self = OneByOne(last.fpre, last.entries)

(***************************************************************************)
(* C17: with one caller at a time and handlers that do not fail, every    *)
(* history between calls is the system message followed by zero or more   *)
(* (user, assistant) pairs, so its length is odd; a successful chat call  *)
(* extends it by exactly two messages and a failed one by none; and the   *)
(* history before a chat call is a prefix of the history after it.        *)
(***************************************************************************)
\* no registered handler raises when called; the registry only grows, so no
\* handler that raises has been registered before either
NoHandlerFails ==
    \A i \in DOMAIN functions : ~CallableOf(functions[i].v.func).raises

C17_HistoryIsPairs ==
    (~Busy /\ NoHandlerFails) =>
        /\ Ordered(messages, FALSE)
        /\ Len(messages) % 2 = 1
        /\ ChatEnded =>
              /\ IsPrefix(last.mpre, messages)
              /\ Len(messages) - Len(last.mpre)
                    = IF last.api = "text" THEN 2 ELSE 0

(***************************************************************************)
(* C18: a user message that a handler failure has left without a reply is *)
(* not repaired by any later chat call.  The handler failure leaves the   *)
(* user message last in the history; the request of the next chat call    *)
(* carries two consecutive user messages; a later call whose request      *)
(* fails rolls back its own user message only; and every user message     *)
(* without a reply before a chat call is still without one while the      *)
(* request is out and after the call has ended.  Only a registration,     *)
(* which resets the history, removes it.                                  *)
(***************************************************************************)
\* the positions of the user messages of a history that no assistant message
\* follows
Unanswered(msgs) ==
    {i \in 1..Len(msgs) :
        /\ msgs[i].role = "user"
        /\ (i = Len(msgs) \/ msgs[i + 1].role # "assistant")}

\* the user messages unanswered in history a are in place and unanswered in b
StillUnanswered(a, b) ==
    /\ IsPrefix(a, b)
    /\ Unanswered(a) \subseteq Unanswered(b)

C18_DanglingMessageStays ==
    /\ (ChatEnded /\ last.exc = "HandlerError") =>
          /\ messages = last.sent
          /\ Len(messages) \in Unanswered(messages)
    /\ \A t \in Threads :
          (pc[t] = "awaiting" /\ Unanswered(pre[t]) # {}) =>
              /\ AdjacentUsers(sent[t])
              /\ StillUnanswered(pre[t], messages)
    /\ (ChatEnded /\ Unanswered(last.mpre) # {}) =>
          /\ AdjacentUsers(last.sent)
          /\ StillUnanswered(last.mpre, messages)
          /\ RequestFailed => messages = last.mpre

\* after a handler failure, a later call whose request failed has rolled back
\* its own user message and left the unanswered one last in the history
C18_Witness ==
    /\ last.threw = "HandlerError"
    /\ RequestFailed
    /\ AdjacentUsers(last.sent)
    /\ messages = last.mpre
    /\ Len(messages) \in Unanswered(messages)

====
